---- MODULE Spec2Model ----
(***************************************************************************)
(* Model of src/utils/util_create_label_masks.py: one call of              *)
(* util_create_label_masks(seg_file, out_prefix, label_list).              *)
(*                                                                         *)
(* Numbers.  seg_nii.get_fdata() returns float64 values; they are kept in  *)
(* fixed point, a value x standing for x / Scale.  A Python int n that     *)
(* meets a float (lbl in np.unique(..), seg_data == label) is promoted,    *)
(* Float(n); int(label) and "%d" % label truncate towards zero.  The       *)
(* volumes drawn in Init hold integer-like label codes, as the data model  *)
(* of the specification describes a Labeled Volume.                        *)
(*                                                                         *)
(* Files.  An output file name f"{out_prefix}{n}.nii.gz" is modelled by    *)
(* the integer n it embeds, f"{out_prefix}List.csv" by the string          *)
(* "List.csv"; out_prefix is the same in every name and is left out.       *)
(***************************************************************************)
EXTENDS Integers, Sequences, FiniteSets, TLC

VARIABLES
    seg_file,    \* the image stored at the path seg_file
    label_list,  \* the label_list argument
    pc,          \* position in the function body
    seg_nii,     \* the loaded image
    seg_data,    \* seg_nii.get_fdata()
    labels,      \* the labels to process
    i,           \* number of iterations of the for loop completed
    nii,         \* the .nii.gz files on disk, by the integer in their name
    csv,         \* the .csv files on disk, by name
    stdout       \* the lines printed

vars == <<seg_file, label_list, pc, seg_nii, seg_data, labels, i, nii, csv, stdout>>

(***************************** bounds **************************************)
Scale == 2        \* fixed-point denominator of a float64
MaxLabel == 2     \* voxel values and list entries range over 0..MaxLabel
MaxListLen == 3   \* longest label_list

(***************************** numbers *************************************)
\* int -> float64 promotion
Float(n) == n * Scale

\* int(label), and "%d" % label: truncation towards zero
int(x) == IF x >= 0 THEN x \div Scale ELSE -((-x) \div Scale)

\* the text "%d" produces, as the integer it spells
FmtD(x) == int(x)

(***************************** images **************************************)
\* voxel indices of a grid of the given shape
Idx(shape) == (1..shape[1]) \X (1..shape[2])

Shapes == {<<1, 2>>, <<2, 1>>, <<1, 3>>}
Affines == {"A1", "A2"}
Headers == {"H1"}
VoxelValues == {Float(n) : n \in 0..MaxLabel}

Volumes ==
    UNION {[shape : {s}, data : [Idx(s) -> VoxelValues],
            affine : Affines, header : Headers] : s \in Shapes}

NoImage == [shape |-> <<0, 0>>, data |-> [v \in {} |-> 0],
            affine |-> "none", header |-> "none"]

\* nib.Nifti1Image(data, affine=.., header=..): the shape is that of data
Nifti1Image(data, shape, affine, header) ==
    [shape |-> shape, data |-> data, affine |-> affine, header |-> header]

(***************************** label lists *********************************)
None == [isNone |-> TRUE, items |-> <<>>]
List(s) == [isNone |-> FALSE, items |-> s]

SeqsUpTo(S, n) == UNION {[1..k -> S] : k \in 0..n}

LabelLists == {None} \cup {List(s) : s \in SeqsUpTo(0..MaxLabel, MaxListLen)}

(***************************** label resolution ***************************)
RECURSIVE SortedSeq(_)
\* the elements of a finite set of numbers, ascending
SortedSeq(S) ==
    IF S = {} THEN <<>>
    ELSE LET m == CHOOSE x \in S : \A y \in S : x <= y
         IN  <<m>> \o SortedSeq(S \ {m})

\* np.unique(seg_data): the distinct values, sorted ascending
unique(data) == SortedSeq({data[v] : v \in DOMAIN data})

\* x in arr, for a one-dimensional array
InArray(x, arr) == \E k \in 1..Len(arr) : arr[k] = x

\* mutant: labels = np.unique(seg_data), the zero kept
AutoLabels_keep_zero(data) == unique(data)

\* mutant: labels = np.unique(seg_data)[1:], dropping the smallest value for the zero
AutoLabels_drop_first(data) ==
    IF unique(data) = <<>> THEN <<>> ELSE Tail(unique(data))

\* labels = np.unique(seg_data); labels = labels[labels != 0]
AutoLabels(data) == SelectSeq(unique(data), LAMBDA x : x # 0)

\* mutant: [lbl for lbl in np.unique(seg_data) if lbl in label_list]
ListedLabels_grid_order(items, data) ==
    SelectSeq(unique(data),
              LAMBDA x : \E k \in 1..Len(items) : Float(items[k]) = x)

\* mutant: the list is de-duplicated before it is filtered
ListedLabels_dedup(items, data) ==
    LET promoted == [k \in 1..Len(items) |-> Float(items[k])]
        first == {k \in 1..Len(items) : \A j \in 1..(k - 1) : items[j] # items[k]}
        RECURSIVE Pick(_)
        Pick(k) == IF k > Len(items) THEN <<>>
                   ELSE (IF k \in first /\ InArray(promoted[k], unique(data))
                         THEN <<promoted[k]>> ELSE <<>>) \o Pick(k + 1)
    IN  Pick(1)

\* [lbl for lbl in label_list if lbl in np.unique(seg_data)]; the kept
\* entries are held promoted, which changes none of ==, int() and "%d"
ListedLabels(items, data) ==
    SelectSeq([k \in 1..Len(items) |-> Float(items[k])],
              LAMBDA x : InArray(x, unique(data)))

(***************************** per-label output ****************************)
\* mutant: (seg_data >= label).astype(int)
out_data_ge(data, label) == [v \in DOMAIN data |-> IF data[v] >= label THEN 1 ELSE 0]

\* (seg_data == label).astype(int)
out_data(data, label) == [v \in DOMAIN data |-> IF data[v] = label THEN 1 ELSE 0]

\* nib.Nifti1Image(out_data, affine=seg_nii.affine, header=seg_nii.header)
out_nii(img, data, label) ==
    Nifti1Image(out_data(data, label), img.shape, img.affine, img.header)

\* f"{out_prefix}{int(label)}.nii.gz", by the integer it embeds
out_fname(label) == int(label)

\* mutant: np.savetxt(out_list, np.unique(labels), fmt="%d")
SaveTxt_unique(ls) ==
    LET u == SortedSeq({ls[k] : k \in 1..Len(ls)})
    IN  [k \in 1..Len(u) |-> FmtD(u[k])]

\* the lines np.savetxt(out_list, labels, fmt="%d") writes
SaveTxt(ls) == [k \in 1..Len(ls) |-> FmtD(ls[k])]

out_list == "List.csv"

(***************************** files ***************************************)
\* a file holds what a completed write stored, or what a failed one left
Stored(c) == [complete |-> TRUE, content |-> c]
Partial == [complete |-> FALSE, content |-> <<>>]

NoFiles == [n \in {} |-> Partial]

Put(files, name, file) ==
    [n \in DOMAIN files \cup {name} |-> IF n = name THEN file ELSE files[n]]

\* what a failed write can leave at its path: the path untouched (the open
\* failed) or a truncated file (the write failed after the open)
FailedWrite(files, name) == {files, Put(files, name, Partial)}

(***************************** the run *************************************)
Init ==
    /\ seg_file \in Volumes
    /\ label_list \in LabelLists
    /\ pc = "load"
    /\ seg_nii = NoImage
    /\ seg_data = NoImage.data
    /\ labels = <<>>
    /\ i = 0
    /\ nii = NoFiles
    /\ csv = NoFiles
    /\ stdout = <<>>

\* seg_nii = nib.load(seg_file); seg_data = seg_nii.get_fdata()
Load ==
    /\ pc = "load"
    /\ seg_nii' = seg_file
    /\ seg_data' = seg_file.data
    /\ pc' = "resolve"
    /\ UNCHANGED <<seg_file, label_list, labels, i, nii, csv, stdout>>

\* nib.load raises: the exception leaves the function
LoadError ==
    /\ pc = "load"
    /\ pc' = "error"
    /\ UNCHANGED <<seg_file, label_list, seg_nii, seg_data, labels, i, nii, csv, stdout>>

\* mutant: the explicit branch without its early return
ResolveLabels_no_return ==
    /\ pc = "resolve"
    /\ labels' = (IF label_list.isNone THEN AutoLabels(seg_data)
                  ELSE ListedLabels(label_list.items, seg_data))
    /\ pc' = "loop"
    /\ UNCHANGED <<seg_file, label_list, seg_nii, seg_data, i, nii, csv, stdout>>

\* mutant: the emptiness test dedented, so that it follows both branches
ResolveLabels_return_both ==
    /\ pc = "resolve"
    /\ labels' = (IF label_list.isNone THEN AutoLabels(seg_data)
                  ELSE ListedLabels(label_list.items, seg_data))
    /\ IF Len(labels') = 0
       THEN /\ stdout' = Append(stdout, <<"No specified labels found in segmentation.", 0>>)
            /\ pc' = "returned"
       ELSE /\ pc' = "loop"
            /\ UNCHANGED stdout
    /\ UNCHANGED <<seg_file, label_list, seg_nii, seg_data, i, nii, csv>>

\* "Determine labels to process"
ResolveLabels ==
    /\ pc = "resolve"
    /\ IF label_list.isNone
       THEN /\ labels' = AutoLabels(seg_data)
            /\ pc' = "loop"
            /\ UNCHANGED stdout
       ELSE /\ labels' = ListedLabels(label_list.items, seg_data)
            /\ IF Len(labels') = 0
               THEN /\ stdout' = Append(stdout, <<"No specified labels found in segmentation.", 0>>)
                    /\ pc' = "returned"
               ELSE /\ pc' = "loop"
                    /\ UNCHANGED stdout
    /\ UNCHANGED <<seg_file, label_list, seg_nii, seg_data, i, nii, csv>>

\* mutant: np.savetxt indented into the loop body
SaveMask_with_list ==
    /\ pc = "loop"
    /\ i < Len(labels)
    /\ LET label == labels[i + 1]
       IN  /\ nii' = Put(nii, out_fname(label), Stored(out_nii(seg_nii, seg_data, label)))
           /\ stdout' = Append(stdout, <<"Saved label", int(label)>>)
    /\ csv' = Put(csv, out_list, Stored(SaveTxt(labels)))
    /\ i' = i + 1
    /\ UNCHANGED <<seg_file, label_list, pc, seg_nii, seg_data, labels>>

\* one iteration of the for loop whose nib.save succeeds
SaveMask ==
    /\ pc = "loop"
    /\ i < Len(labels)
    /\ LET label == labels[i + 1]
       IN  /\ nii' = Put(nii, out_fname(label), Stored(out_nii(seg_nii, seg_data, label)))
           /\ stdout' = Append(stdout, <<"Saved label", int(label)>>)
    /\ i' = i + 1
    /\ UNCHANGED <<seg_file, label_list, pc, seg_nii, seg_data, labels, csv>>

\* mutant: the failure handled by removing the masks written so far
SaveMaskError_cleanup ==
    /\ pc = "loop"
    /\ i < Len(labels)
    /\ nii' = NoFiles
    /\ pc' = "error"
    /\ UNCHANGED <<seg_file, label_list, seg_nii, seg_data, labels, i, csv, stdout>>

\* one iteration of the for loop whose nib.save raises
SaveMaskError ==
    /\ pc = "loop"
    /\ i < Len(labels)
    /\ nii' \in FailedWrite(nii, out_fname(labels[i + 1]))
    /\ pc' = "error"
    /\ UNCHANGED <<seg_file, label_list, seg_nii, seg_data, labels, i, csv, stdout>>

\* after the loop: np.savetxt succeeds
SaveList ==
    /\ pc = "loop"
    /\ i = Len(labels)
    /\ csv' = Put(csv, out_list, Stored(SaveTxt(labels)))
    /\ stdout' = Append(stdout, <<"Saved list of labels", 0>>)
    /\ pc' = "done"
    /\ UNCHANGED <<seg_file, label_list, seg_nii, seg_data, labels, i, nii>>

\* after the loop: np.savetxt raises
SaveListError ==
    /\ pc = "loop"
    /\ i = Len(labels)
    /\ csv' \in FailedWrite(csv, out_list)
    /\ pc' = "error"
    /\ UNCHANGED <<seg_file, label_list, seg_nii, seg_data, labels, i, nii, stdout>>

Next ==
    \/ Load
    \/ LoadError
    \/ ResolveLabels
    \/ SaveMask
    \/ SaveMaskError
    \/ SaveList
    \/ SaveListError

Spec == Init /\ [][Next]_vars

\* the interpreter runs the call to its end: a step that can be taken is taken
FairSpec == Spec /\ WF_vars(Next)

TypeOK ==
    /\ pc \in {"load", "resolve", "loop", "done", "returned", "error"}
    /\ i \in 0..Len(labels)
    /\ DOMAIN nii \subseteq Int
    /\ DOMAIN csv \subseteq {out_list}

(***************************** vocabulary of the properties *****************)
\* the distinct values of the source voxel grid
GridValues == {seg_file.data[v] : v \in DOMAIN seg_file.data}

\* the source value a label code n names
Occurs(n) == Float(n) \in GridValues

\* the integers of the "Saved label" lines printed so far: the masks written, in order
Written == LET saved == SelectSeq(stdout, LAMBDA line : line[1] = "Saved label")
           IN  [k \in 1..Len(saved) |-> saved[k][2]]

Count(s, x) == Cardinality({k \in 1..Len(s) : s[k] = x})

IsPrefix(s, t) == Len(s) <= Len(t) /\ \A k \in 1..Len(s) : s[k] = t[k]

RECURSIVE Surviving(_)
\* the entries of a list of label codes that occur in the source grid, in the list's order
Surviving(items) ==
    IF items = <<>> THEN <<>>
    ELSE (IF Occurs(Head(items)) THEN <<Head(items)>> ELSE <<>>) \o Surviving(Tail(items))

Ascending(s) == \A j, k \in 1..Len(s) : j < k => s[j] < s[k]

ManifestWritten == out_list \in DOMAIN csv /\ csv[out_list].complete
Manifest == csv[out_list].content

\* the run failed in nib.save / in np.savetxt / in nib.load
MaskWriteFailed == pc = "error" /\ i < Len(labels)
ListWriteFailed == pc = "error" /\ seg_nii # NoImage /\ i = Len(labels)
LoadFailed == pc = "error" /\ seg_nii = NoImage

(***************************** C1 ******************************************)
\* C1: for every label L processed, the mask file written for L has the shape
\* and the affine of the source volume, and at every voxel v holds 1 if the
\* source value at v equals L and 0 otherwise.
C1_MaskCorrect ==
    \A j \in 1..i :
        LET L == labels[j]
            name == int(L)
        IN  /\ name \in DOMAIN nii
            /\ (pc # "error" => nii[name].complete)
            /\ nii[name].complete =>
                 LET m == nii[name].content
                 IN  /\ m.shape = seg_file.shape
                     /\ m.affine = seg_file.affine
                     /\ DOMAIN m.data = Idx(seg_file.shape)
                     /\ \A v \in Idx(seg_file.shape) :
                            m.data[v] = (IF seg_file.data[v] = L THEN 1 ELSE 0)

\* two masks written, one of a label that fills part of a grid
C1_Witness ==
    /\ i >= 2
    /\ \E v, w \in DOMAIN seg_file.data :
          seg_file.data[v] = labels[1] /\ seg_file.data[w] # labels[1]

(***************************** C2 ******************************************)
\* C2: with no explicit label list and every write successful, every non-zero
\* value L of the source grid has a mask file named after L, and L appears
\* exactly once in the manifest.
C2_Completeness ==
    (pc = "done" /\ label_list.isNone) =>
        \A L \in GridValues \ {0} :
            \E n \in DOMAIN nii :
                /\ Float(n) = L
                /\ nii[n].complete
                /\ ManifestWritten
                /\ Count(Manifest, n) = 1

C2_Witness ==
    /\ pc = "done"
    /\ label_list.isNone
    /\ Cardinality(GridValues \ {0}) >= 2
    /\ 0 \in GridValues

(***************************** C3 ******************************************)
\* C3: with an explicit label list, the labels processed are exactly the
\* entries of the list that occur in the source grid, in the list's order:
\* at every moment the masks written are a prefix of that subsequence, and
\* all of it once the loop has ended.
C3_Filtering ==
    ~label_list.isNone =>
        /\ IsPrefix(Written, Surviving(label_list.items))
        /\ Len(Written) = i
        /\ {Written[k] : k \in 1..Len(Written)} \subseteq DOMAIN nii
        /\ DOMAIN nii \subseteq {label_list.items[k] : k \in {j \in 1..Len(label_list.items) :
                                                            Occurs(label_list.items[j])}}
        /\ (pc = "done" => Written = Surviving(label_list.items))

\* a list whose surviving entries are out of ascending order, with an entry dropped
C3_Witness ==
    /\ pc = "done"
    /\ ~label_list.isNone
    /\ Len(Written) >= 2
    /\ Written[1] > Written[2]
    /\ Len(label_list.items) > Len(Written)

(***************************** C4 ******************************************)
\* C4: with an explicit label list none of whose entries occurs in the source
\* grid, no file is ever written, neither mask nor manifest, and once the
\* volume is loaded the run ends by returning, not in an error.
C4_EmptyIntersection ==
    (~label_list.isNone /\ Surviving(label_list.items) = <<>>) =>
        /\ DOMAIN nii = {}
        /\ DOMAIN csv = {}
        /\ pc \in {"load", "resolve", "returned", "error"}
        /\ (pc = "error" => LoadFailed)
        /\ (pc = "resolve" => ENABLED ResolveLabels)

C4_Witness ==
    /\ pc = "returned"
    /\ ~label_list.isNone
    /\ Len(label_list.items) >= 2
    /\ stdout = <<<<"No specified labels found in segmentation.", 0>>>>

(***************************** C5 ******************************************)
\* C5: whenever a manifest is written, its entries are exactly the labels
\* whose masks were written, in the order the masks were written: ascending
\* under auto-discovery, the caller's order under an explicit list.
C5_ManifestOrder ==
    ManifestWritten =>
        /\ Manifest = Written
        /\ \A k \in 1..Len(Manifest) :
              Manifest[k] \in DOMAIN nii /\ nii[Manifest[k]].complete
        /\ (label_list.isNone => Ascending(Manifest))
        /\ (~label_list.isNone => Manifest = Surviving(label_list.items))

C5_Witness ==
    /\ ManifestWritten
    /\ ~label_list.isNone
    /\ Len(Manifest) >= 2
    /\ ~Ascending(Manifest)

(***************************** C6 ******************************************)
\* C6: unless the explicit label list contains 0, label 0 is never
\* processed: no mask for 0 is written and 0 is not in the manifest.
C6_NoBackground ==
    (label_list.isNone \/ Count(label_list.items, 0) = 0) =>
        /\ 0 \notin DOMAIN nii
        /\ \A k \in 1..Len(labels) : labels[k] # 0
        /\ Count(Written, 0) = 0
        /\ (out_list \in DOMAIN csv /\ csv[out_list].complete
              => Count(csv[out_list].content, 0) = 0)

C6_Witness ==
    /\ pc = "done"
    /\ label_list.isNone
    /\ 0 \in GridValues
    /\ Len(Manifest) >= 1

(***************************** C7 ******************************************)
\* the step in which nib.save of the k-th label (k = i + 1) raises
MaskWriteFails == pc = "loop" /\ i < Len(labels) /\ pc' = "error"

\* C7 as claimed: when the write of the k-th label's mask fails the run ends
\* in an error, no step follows, and the mask files written for the first
\* k-1 labels are on disk unchanged.
C7_AsClaimed ==
    [][/\ pc = "error" => FALSE
       /\ MaskWriteFails =>
            \A j \in 1..i : /\ int(labels[j]) \in DOMAIN nii'
                            /\ nii'[int(labels[j])] = nii[int(labels[j])]]_vars

\* C7, amended: as claimed, for the files of the earlier labels other than
\* the file the failing write was directed at (the k-th label may repeat an
\* earlier entry of an explicit list, and then shares its file).
C7_NoRollback ==
    [][/\ pc = "error" => FALSE
       /\ MaskWriteFails =>
            /\ UNCHANGED <<i, csv, stdout>>
            /\ \A j \in 1..i :
                  int(labels[j]) # int(labels[i + 1]) =>
                      /\ int(labels[j]) \in DOMAIN nii'
                      /\ nii'[int(labels[j])] = nii[int(labels[j])]
                      /\ nii'[int(labels[j])].complete]_vars

\* the write of the third label failed with two other masks on disk
C7_Witness ==
    /\ MaskWriteFailed
    /\ i = 2
    /\ labels[1] # labels[3] /\ labels[2] # labels[3] /\ labels[1] # labels[2]
    /\ nii[int(labels[1])].complete /\ nii[int(labels[2])].complete

(***************************** C8 ******************************************)
\* C8: when an explicit list holds n > 1 times a label L that occurs in the
\* source grid, a completed run has written the mask of L n times, a single
\* file for L is on disk, and the manifest holds n entries for L.
C8_Duplicates ==
    (pc = "done" /\ ~label_list.isNone) =>
        \A L \in 0..MaxLabel :
            (Occurs(L) /\ Count(label_list.items, L) > 1) =>
                /\ Count(Written, L) = Count(label_list.items, L)
                /\ Count(Manifest, L) = Count(label_list.items, L)
                /\ L \in DOMAIN nii /\ nii[L].complete
                /\ Cardinality({n \in DOMAIN nii : Float(n) = Float(L)}) = 1

\* a label listed twice, not side by side
C8_Witness ==
    /\ pc = "done"
    /\ ~label_list.isNone
    /\ Len(Written) = 3
    /\ Written[1] = Written[3] /\ Written[1] # Written[2]

(***************************** C9 ******************************************)
\* the steps of the run, in order; the three ends share the last rank
Rank(p) ==
    CASE p = "load" -> 0
      [] p = "resolve" -> 1
      [] p = "loop" -> 2
      [] OTHER -> 3

Terminated == pc \in {"done", "returned", "error"}

\* C9: the run goes Load, Resolve Labels, mask writes, Manifest Write, Done
\* and never back; the manifest is written at most once, and only after a
\* mask was written for every entry of the label set; no mask is written
\* after the manifest; and every run terminates.
C9_Linear ==
    /\ [][/\ Rank(pc') >= Rank(pc)
          /\ Terminated => FALSE
          /\ i' >= i
          /\ (pc = "loop" /\ pc' = "loop") => i' = i + 1
          /\ csv' # csv => /\ DOMAIN csv = {}
                           /\ pc = "loop"
                           /\ i = Len(labels)
                           /\ Len(Written) = Len(labels)
                           /\ Terminated'
          /\ DOMAIN csv # {} => nii' = nii]_vars
    /\ <>Terminated

C9_Witness ==
    /\ pc = "done"
    /\ Len(labels) >= 2
    /\ ManifestWritten

(***************************** C10 *****************************************)
\* C10: with no explicit label list and a source volume that is 0 at every
\* voxel, the label set is empty, the run does not take the early exit, it
\* writes no mask, and it goes on to write a manifest of zero entries and
\* complete.
C10_AllZero ==
    (label_list.isNone /\ GridValues = {0}) =>
        /\ pc # "returned"
        /\ stdout \in {<<>>, <<<<"Saved list of labels", 0>>>>}
        /\ DOMAIN nii = {}
        /\ labels = <<>>
        /\ (pc = "loop" => ENABLED SaveList)
        /\ (pc = "done" => csv = Put(NoFiles, out_list, Stored(<<>>)))
        /\ (pc = "error" => LoadFailed \/ ListWriteFailed)

C10_Witness ==
    /\ pc = "done"
    /\ label_list.isNone
    /\ GridValues = {0}
    /\ ManifestWritten
    /\ Manifest = <<>>

====
